---- MODULE Spec2Model ----
(***************************************************************************)
(* ShopStream API gateway (services/api-gateway/src/index.js): the auth    *)
(* gate, logout, the Redis-backed cart routes and the checkout route, the  *)
(* rate limiters, the proxied routes and the health route.                 *)
(*                                                                         *)
(* Every request is a little process.  Its position (pc) is the await it   *)
(* is suspended at; one action resumes it: the awaited Redis command or    *)
(* HTTP call takes effect (or fails) and the handler runs on, synchronously,*)
(* to its next await or to its response.  Requests interleave freely at    *)
(* their awaits, as on the Node.js event loop.                             *)
(*                                                                         *)
(* Request bodies are well typed: productId and quantity are numbers and   *)
(* items is an array of line items (what the frontend sends).  name and    *)
(* image of a line item are opaque strings that steer nothing and are left *)
(* out of the line item record.                                            *)
(***************************************************************************)
EXTENDS Integers, Sequences, FiniteSets, TLC

\* ---------------------------------------------------------------- bounds
MaxReq == 2        \* requests of one run
MaxTime == 3       \* the clock runs from 0 to MaxTime (seconds)
TokenLife == 2     \* exp claim of the issued tokens
MaxConn == 2       \* WebSocket connections of one run
MaxAttempt == 3    \* calls of connectRabbitMQ of one run
MaxWindows == 1    \* the rate limiters are watched for MaxWindows windows
MaxOver == 1       \* requests a client sends on after a limiter has rejected one

\* ------------------------------------------------------ program constants
CartTtl == 604800  \* 86400 * 7, the TTL of a stored cart
GeneralMax == 100  \* max of generalLimiter
AuthMax == 10      \* max of authLimiter
WindowSec == 900   \* windowMs of both limiters, 15 * 60 * 1000 ms

ReqIds == 1..MaxReq
Users == {"alice", "bob"}
NoUser == "none"
NoToken == "none"
\* tA, tB: issued by the auth service to alice and bob; tForged: alice's
\* claims under a signature made with another secret.
Tokens == {"tA", "tB", "tForged"}
Products == {1, 2}
Quantities == {1, 2}

TokenUser(t) == IF t = "tB" THEN "bob" ELSE "alice"
TokenExp(t) == TokenLife
TokenSigned(t) == t # "tForged"

VARIABLES
    now,        \* Math.floor(Date.now() / 1000)
    blacklist,  \* Redis keys blacklist:<token>: the time the key expires, 0 = no key
    carts,      \* Redis keys cart:<userId>
    orders,     \* orders the order service has created
    req,        \* the requests: route, input, position, locals, response
                \* (and, as history, over: the stored cart a write replaced,
                \* sent and fwd: a downstream request went out, and the
                \* X-User-Id header it carried)
    loggedOut,  \* history: the tokens POST /auth/logout has answered 200 for
    hits,       \* the limiters' stores: the hit count of a client's key
    resetAt,    \* the limiters' stores: the time the window of a key ends
    lim,        \* the requests on their way through the limiters
    asked,      \* history: the requests of a client a limiter was asked
                \* about in the client's running window
    since,      \* history: the time of the first of them
    passed,     \* history: those of them the limiter let pass
    health,     \* the GET /health request
    proc,       \* the gateway process: up, in shutdown(), exited
    ws,         \* notification service: the WebSocket connections, each
                \* with its readyState and the userId of its closure
    userConnections,  \* notification service: Map of userId -> Set of
                \* connections
    lastSend,   \* history: the user of the last sendToUser and the
                \* connections it sent to, each with its userId then
    att,        \* notification service: the calls of connectRabbitMQ, each
                \* with its position and the connection it has made
    reconnectTimer,   \* notification service: a reconnect timer is set
    rabbitConnection, \* notification service: the attempt whose
                \* connection the variable holds, 0 = null
    rabbitChannel     \* notification service: the same for the channel

limVars == <<hits, resetAt, lim, asked, since, passed>>

wsVars == <<ws, userConnections, lastSend>>

mqVars == <<att, reconnectTimer, rabbitConnection, rabbitChannel>>

sideVars == <<proc, wsVars, mqVars>>

\* the variables of the gateway
gwVars == <<now, blacklist, carts, orders, req, loggedOut, limVars, health, proc>>

vars == <<now, blacklist, carts, orders, req, loggedOut, limVars, health, sideVars>>

\* ------------------------------------------------------------ data model
\* the WebSocket connections of a run
Conns == 1..MaxConn

\* a connection that has not been made: `let userId = null`
NoSocket == [state |-> "none", userId |-> NoUser]

\* new Map()
NoConnections == [u \in {} |-> {}]

NoSend == [user |-> NoUser, to |-> {}]

\* the calls of connectRabbitMQ of a run
Attempts == 1..MaxAttempt

\* a call that has not been made
NoAttempt == [pc |-> "idle", link |-> "none", handlers |-> FALSE, consumer |-> FALSE]

Item(p, pr, q) == [productId |-> p, price |-> pr, quantity |-> q]
NoCart == [present |-> FALSE, items |-> <<>>, exp |-> 0]
NoOrder == [id |-> 0, userId |-> NoUser, items |-> <<>>, total |-> 0]
NoArg == [productId |-> 0, quantity |-> 0, items |-> <<>>, userIdHeader |-> NoUser]

IdleReq ==
    [route |-> "none", token |-> NoToken, arg |-> NoArg, pc |-> "idle",
     user |-> NoUser, cart |-> <<>>, seen |-> <<>>, ttl |-> 0, order |-> NoOrder,
     status |-> 0, error |-> "", body |-> <<>>, threw |-> "", steps |-> <<>>,
     over |-> <<>>, sent |-> FALSE, fwd |-> NoUser, payload |-> NoOrder]

\* the price the product service quotes for product p
Price(p) == p

Max(a, b) == IF a >= b THEN a ELSE b

\* a find whose test matches no line item
FindIndexNever(cart, p) == 0

\* cart.find((item) => item.productId === productId): the index of the first
\* line item of the product, 0 when find returns undefined
FindIndex(cart, p) ==
    IF \E i \in 1..Len(cart) : cart[i].productId = p
    THEN CHOOSE i \in 1..Len(cart) :
             /\ cart[i].productId = p
             /\ \A j \in 1..(i - 1) : cart[j].productId # p
    ELSE 0

\* existingItem.quantity = quantity
AddExistingOverwrite(cart, p, q) ==
    [cart EXCEPT ![FindIndex(cart, p)].quantity = q]

\* existingItem.quantity += quantity
AddExisting(cart, p, q) ==
    [cart EXCEPT ![FindIndex(cart, p)].quantity = @ + q]

\* cart.push({ productId, name, price, image, quantity })
AddNew(cart, p, pr, q) == Append(cart, Item(p, pr, q))

\* the merge loop with existing.quantity = item.quantity
MergeOneOverwrite(cart, item) ==
    IF FindIndex(cart, item.productId) > 0
    THEN [cart EXCEPT ![FindIndex(cart, item.productId)].quantity =
                          item.quantity]
    ELSE Append(cart, item)

\* one round of the merge loop of POST /cart/sync
MergeOne(cart, item) ==
    IF FindIndex(cart, item.productId) > 0
    THEN [cart EXCEPT ![FindIndex(cart, item.productId)].quantity =
                          Max(@, item.quantity)]
    ELSE Append(cart, item)

\* for (const item of items) { ... }
RECURSIVE MergeItems(_, _)
MergeItems(cart, items) ==
    IF items = <<>> THEN cart
    ELSE MergeItems(MergeOne(cart, Head(items)), Tail(items))

\* cart.reduce((sum, item) => sum + item.price * item.quantity, 0)
RECURSIVE CartTotal(_)
CartTotal(cart) ==
    IF cart = <<>> THEN 0
    ELSE Head(cart).price * Head(cart).quantity + CartTotal(Tail(cart))

\* ------------------------------------------------------------- the cache
\* one key for the carts of all users
CartKeyShared(rq) == "alice"

\* const cartKey = `cart:${req.user.id}`: the cart a handler works on
CartKey(rq) == rq.user

\* redis.get(`blacklist:${token}`) answers a value: the key is set and its
\* TTL has not run out
Blacklisted(t) == blacklist[t] > now

\* redis.get(cartKey): the stored cart, NoCart (null) when no key is live
CartData(u) ==
    IF carts[u].present /\ carts[u].exp > now THEN carts[u] ELSE NoCart

\* what the handlers test with `cartData ? ... : ...` and `!cartData`: a
\* stored string is truthy whatever it holds, "[]" included
Truthy(cartData) == cartData.present

\* cartData ? JSON.parse(cartData) : [], the body GET /cart answers
GetCartBody(u) == IF Truthy(CartData(u)) THEN CartData(u).items ELSE <<>>

\* a write that merges the cart into the one stored
SetexCartMerged(u, cart) ==
    carts' = [carts EXCEPT ![u] =
                 [present |-> TRUE, items |-> MergeItems(GetCartBody(u), cart),
                  exp |-> now + CartTtl]]

\* redis.setex(cartKey, 86400 * 7, JSON.stringify(cart))
SetexCart(u, cart) ==
    carts' = [carts EXCEPT ![u] =
                 [present |-> TRUE, items |-> cart, exp |-> now + CartTtl]]

\* a del of another key
DelCartMissed(u) == carts' = carts

\* redis.del(cartKey)
DelCart(u) == carts' = [carts EXCEPT ![u] = NoCart]

\* ------------------------------------------------------------ the tokens
\* jwt.verify(token, config.jwtSecret): signature and expiry
Verify(t) == TokenSigned(t) /\ now < TokenExp(t)

\* a fixed TTL in place of the token's remaining lifetime
RemainingLifeFixed(t) == 1

\* decoded.exp - Math.floor(Date.now() / 1000)
RemainingLife(t) == TokenExp(t) - now

\* ---------------------------------------------------------- the requests
Did(rq, step) == \E i \in 1..Len(rq.steps) : rq.steps[i] = step

Step(rq, pc, step) == [rq EXCEPT !.pc = pc, !.steps = Append(@, step)]

\* res.status(status).json(...)
Respond(rq, status, error, body) ==
    [rq EXCEPT !.pc = "done", !.status = status, !.error = error,
               !.body = body, !.steps = Append(@, "respond")]

\* an awaited call rejected and the catch block answers
Caught(rq, call, status, error) ==
    [Respond(rq, status, error, <<>>) EXCEPT !.threw = call]

Set(r, rq) == req' = [req EXCEPT ![r] = rq]

\* http-proxy sends the request on with the headers it came with
ProxyHeaders(rq) == rq.arg.userIdHeader

\* createProxyMiddleware({ target, changeOrigin: true }): the product routes
PlainProxy(rq) ==
    [Step(rq, "px_plain", "proxy") EXCEPT !.sent = TRUE, !.fwd = ProxyHeaders(rq)]

\* the proxy of GET /orders; onProxyReq: proxyReq.setHeader("X-User-Id",
\* req.user.id)
OrdersProxy(rq) ==
    [Step(rq, "px_plain", "proxy") EXCEPT !.sent = TRUE, !.fwd = rq.user]

\* authProxy, the proxy of POST /auth/register and POST /auth/login
AuthProxy(rq) ==
    [Step(rq, "px_auth", "proxy") EXCEPT !.sent = TRUE, !.fwd = ProxyHeaders(rq)]

\* the route handler, from next() to its first await
Enter(rq) ==
    CASE rq.route = "me" -> Respond(rq, 200, "", <<>>)
      [] rq.route = "logout" ->
            IF RemainingLife(rq.token) > 0
            THEN [Step(rq, "lo_setex", "blacklist_write")
                     EXCEPT !.ttl = RemainingLife(rq.token)]
            ELSE Respond(rq, 200, "", <<>>)
      [] rq.route = "cart_get" -> Step(rq, "cg_get", "cart_read")
      [] rq.route = "cart_add" -> Step(rq, "ca_get", "cart_read")
      [] rq.route = "cart_sync" -> Step(rq, "cs_get", "cart_read")
      [] rq.route = "cart_clear" -> Step(rq, "cc_del", "cart_del")
      [] rq.route = "checkout" -> Step(rq, "co_get", "cart_read")
      [] rq.route = "product_admin" -> PlainProxy(rq)
      [] rq.route = "orders_list" ->
            OrdersProxy([rq EXCEPT !.arg.userIdHeader = rq.user])
      [] rq.route = "cancel" ->
            [Step(rq, "cn_fetch", "cancel_submit") EXCEPT
                !.sent = TRUE, !.fwd = rq.user]

\* authenticateToken without the test of isBlacklisted
GateNoRevocation(rq, ok) ==
    IF ~ok THEN Caught(rq, "blacklist_read", 403, "Invalid or expired token")
    ELSE IF Verify(rq.token)
    THEN Enter([rq EXCEPT !.user = TokenUser(rq.token),
                          !.steps = Append(@, "next")])
    ELSE Caught(rq, "verify", 403, "Invalid or expired token")

\* authenticateToken, after the blacklist lookup has answered (ok) or
\* thrown (~ok)
Gate(rq, ok) ==
    IF ~ok THEN Caught(rq, "blacklist_read", 403, "Invalid or expired token")
    ELSE IF Blacklisted(rq.token)
    THEN Respond(rq, 401, "Token has been revoked", <<>>)
    ELSE IF Verify(rq.token)
    THEN Enter([rq EXCEPT !.user = TokenUser(rq.token),
                          !.steps = Append(@, "next")])
    ELSE Caught(rq, "verify", 403, "Invalid or expired token")

\* ------------------------------------------------------ the rate limiters
\* generalLimiter and authLimiter
Policies == {"general", "auth"}

\* req.ip, the key of a client in a limiter's store
Clients == {"c1", "c2"}

\* the paths as the limiters tell them apart: /health, /auth/..., the rest
PathKinds == {"health", "auth", "other"}

\* the times at which the limiters are watched, besides 0: the ends of the
\* windows that begin at 0
Instants == {k * WindowSec : k \in 1..MaxWindows}

\* two requests are on their way through the limiters at once
LimIds == {1, 2}

IdleLim == [pc |-> "idle", client |-> "none", path |-> "none", status |-> 0,
            error |-> "", by |-> "none"]

\* ------------------------------------------------------- the health route
\* Object.entries(config.services)
Services == {"auth", "product", "order", "notification"}

\* const health = { status: "healthy", ..., services: {} }
NewHealth ==
    [pc |-> "ping", status |-> "healthy", cache |-> "",
     services |-> [n \in Services |-> ""], database |-> "", code |-> 0]

IdleHealth == [NewHealth EXCEPT !.pc = "idle", !.status = ""]

TypeOK ==
    /\ now \in 0..MaxTime \cup Instants
    /\ DOMAIN blacklist = Tokens
    /\ DOMAIN carts = Users
    /\ DOMAIN req = ReqIds
    /\ DOMAIN lim = LimIds
    /\ \A pol \in Policies, c \in Clients : hits[pol][c] \in Nat
    /\ health.pc \in {"idle", "ping", "probes", "database", "done"}
    /\ proc \in {"up", "quitting", "exited"}
    /\ DOMAIN ws = Conns
    /\ DOMAIN userConnections \subseteq Users
    /\ DOMAIN att = Attempts
    /\ reconnectTimer \in BOOLEAN
    /\ rabbitConnection \in {0} \cup Attempts
    /\ rabbitChannel \in {0} \cup Attempts

\* the gateway has started: nothing is stored, no request is under way
Init ==
    /\ now = 0
    /\ blacklist = [t \in Tokens |-> 0]
    /\ carts = [u \in Users |-> NoCart]
    /\ orders = <<>>
    /\ req = [r \in ReqIds |-> IdleReq]
    /\ loggedOut = {}
    /\ hits = [pol \in Policies |-> [c \in Clients |-> 0]]
    /\ resetAt = [pol \in Policies |-> [c \in Clients |-> 0]]
    /\ lim = [r \in LimIds |-> IdleLim]
    /\ asked = [pol \in Policies |-> [c \in Clients |-> 0]]
    /\ since = [pol \in Policies |-> [c \in Clients |-> 0]]
    /\ passed = [pol \in Policies |-> [c \in Clients |-> 0]]
    /\ health = IdleHealth
    /\ proc = "up"
    /\ ws = [c \in Conns |-> NoSocket]
    /\ userConnections = NoConnections
    /\ lastSend = NoSend
    /\ att = [a \in Attempts |-> NoAttempt]
    /\ reconnectTimer = FALSE
    /\ rabbitConnection = 0
    /\ rabbitChannel = 0

\* ------------------------------------------------------------- actions
\* a request whose handling has ended: answered, or left without an answer
Ended(r) == req[r].pc \in {"done", "hung"}

\* no ended request still holds its request and response objects
Quiet == \A r \in ReqIds : ~Ended(r)

\* the request and response objects of an ended request are released;
\* nothing reads them after the handler's last statement, so that they are
\* released before any other request runs on
Release(r) ==
    /\ Ended(r)
    /\ Set(r, [IdleReq EXCEPT !.pc = "released"])
    /\ UNCHANGED <<now, blacklist, carts, orders, loggedOut,
                 limVars, health, sideVars>>

\* a missing token answered like a token that fails verification
UnauthenticatedAsInvalid(rq) == Respond(rq, 403, "Invalid or expired token", <<>>)

\* if (!token) return res.status(401).json({ error: "Authentication required" })
Unauthenticated(rq) == Respond(rq, 401, "Authentication required", <<>>)

\* a request arrives; authenticateToken runs to its first await
StartRequest(r, route, tok, arg) ==
    /\ Quiet
    /\ req[r].pc = "idle"
    /\ r > 1 => req[r - 1].pc # "idle"
    /\ LET rq == [IdleReq EXCEPT !.route = route, !.token = tok, !.arg = arg]
       IN IF tok = NoToken
          THEN Set(r, Unauthenticated(rq))
          ELSE Set(r, Step(rq, "gate", "blacklist_read"))
    /\ UNCHANGED <<now, blacklist, carts, orders, loggedOut,
                 limVars, health, sideVars>>

\* a second passes
Tick ==
    /\ Quiet
    /\ now < MaxTime
    /\ now' = now + 1
    /\ UNCHANGED <<blacklist, carts, orders, req, loggedOut,
                 limVars, health, sideVars>>

\* POST /auth/logout has answered 200
LoggedOutNow(rq) == rq.route = "logout" /\ rq.pc = "done" /\ rq.status = 200

\* authenticateToken resumes after redis.get(`blacklist:${token}`)
GateReply(r, ok) ==
    /\ req[r].pc = "gate"
    /\ Set(r, Gate(req[r], ok))
    /\ loggedOut' = IF LoggedOutNow(Gate(req[r], ok))
                    THEN loggedOut \cup {req[r].token} ELSE loggedOut
    /\ UNCHANGED <<now, blacklist, carts, orders,
                 limVars, health, sideVars>>

\* POST /auth/logout resumes after redis.setex(`blacklist:${token}`, ttl, "1");
\* the handler has no try/catch: a rejected setex leaves the request
\* without a response
LogoutSetexReply(r, ok) ==
    /\ req[r].pc = "lo_setex"
    /\ IF ok
       THEN /\ blacklist' = [blacklist EXCEPT ![req[r].token] = now + req[r].ttl]
            /\ Set(r, Respond(req[r], 200, "", <<>>))
            /\ loggedOut' = loggedOut \cup {req[r].token}
       ELSE /\ blacklist' = blacklist
            /\ Set(r, [req[r] EXCEPT !.pc = "hung", !.threw = "blacklist_write"])
            /\ loggedOut' = loggedOut
    /\ UNCHANGED <<now, carts, orders,
                 limVars, health, sideVars>>

\* GET /cart resumes after redis.get(cartKey)
CartGetReply(r, ok) ==
    /\ req[r].pc = "cg_get"
    /\ IF ok
          THEN Set(r, Respond(req[r], 200, "", GetCartBody(CartKey(req[r]))))
          ELSE Set(r, Caught(req[r], "cart_read", 500, "Failed to fetch cart"))
    /\ UNCHANGED <<now, blacklist, carts, orders, loggedOut,
                 limVars, health, sideVars>>

\* POST /cart/add resumes after redis.get(cartKey): an item of the product
\* is in the cart (quantity added, on to setex), or the product is looked up
AddGetReply(r, ok) ==
    /\ req[r].pc = "ca_get"
    /\ LET rq == req[r]
           cartData == CartData(CartKey(rq))
           cart == IF Truthy(cartData) THEN cartData.items ELSE <<>>
           p == rq.arg.productId
       IN IF ~ok
          THEN Set(r, Caught(rq, "cart_read", 500, "Failed to add to cart"))
          ELSE IF FindIndex(cart, p) > 0
          THEN Set(r, [Step(rq, "ca_setex", "cart_write") EXCEPT
                          !.seen = cart,
                          !.cart = AddExisting(cart, p, rq.arg.quantity)])
          ELSE Set(r, [Step(rq, "ca_prod", "product_lookup") EXCEPT
                          !.seen = cart, !.cart = cart])
    /\ UNCHANGED <<now, blacklist, carts, orders, loggedOut,
                 limVars, health, sideVars>>

\* POST /cart/add resumes after fetch(`${product}/products/${productId}`)
AddProductReply(r, out) ==
    /\ req[r].pc = "ca_prod"
    /\ LET rq == req[r]
       IN CASE out = "failed" ->
                 Set(r, Caught(rq, "product_lookup", 500, "Failed to add to cart"))
            [] out = "notfound" ->
                 Set(r, Respond(rq, 404, "Product not found", <<>>))
            [] out = "found" ->
                 Set(r, [Step(rq, "ca_setex", "cart_write") EXCEPT
                            !.cart = AddNew(rq.cart, rq.arg.productId,
                                            Price(rq.arg.productId),
                                            rq.arg.quantity)])
    /\ UNCHANGED <<now, blacklist, carts, orders, loggedOut,
                 limVars, health, sideVars>>

\* POST /cart/add resumes after redis.setex(cartKey, ...)
AddSetexReply(r, ok) ==
    /\ req[r].pc = "ca_setex"
    /\ IF ok
       THEN /\ SetexCart(CartKey(req[r]), req[r].cart)
            /\ Set(r, [Respond(req[r], 200, "", req[r].cart) EXCEPT
                           !.over = GetCartBody(CartKey(req[r]))])
       ELSE /\ carts' = carts
            /\ Set(r, Caught(req[r], "cart_write", 500, "Failed to add to cart"))
    /\ UNCHANGED <<now, blacklist, orders, loggedOut,
                 limVars, health, sideVars>>

\* POST /cart/sync resumes after redis.get(cartKey) and merges
SyncGetReply(r, ok) ==
    /\ req[r].pc = "cs_get"
    /\ LET rq == req[r]
           cartData == CartData(CartKey(rq))
           cart == IF Truthy(cartData) THEN cartData.items ELSE <<>>
       IN IF ~ok
          THEN Set(r, Caught(rq, "cart_read", 500, "Failed to sync cart"))
          ELSE Set(r, [Step(rq, "cs_setex", "cart_write") EXCEPT
                          !.seen = cart,
                          !.cart = MergeItems(cart, rq.arg.items)])
    /\ UNCHANGED <<now, blacklist, carts, orders, loggedOut,
                 limVars, health, sideVars>>

\* POST /cart/sync resumes after redis.setex(cartKey, ...)
SyncSetexReply(r, ok) ==
    /\ req[r].pc = "cs_setex"
    /\ IF ok
       THEN /\ SetexCart(CartKey(req[r]), req[r].cart)
            /\ Set(r, [Respond(req[r], 200, "", req[r].cart) EXCEPT
                           !.over = GetCartBody(CartKey(req[r]))])
       ELSE /\ carts' = carts
            /\ Set(r, Caught(req[r], "cart_write", 500, "Failed to sync cart"))
    /\ UNCHANGED <<now, blacklist, orders, loggedOut,
                 limVars, health, sideVars>>

\* DELETE /cart resumes after redis.del(cartKey)
ClearDelReply(r, ok) ==
    /\ req[r].pc = "cc_del"
    /\ IF ok
       THEN /\ DelCart(CartKey(req[r]))
            /\ Set(r, Respond(req[r], 200, "", <<>>))
       ELSE /\ carts' = carts
            /\ Set(r, Caught(req[r], "cart_del", 500, "Failed to clear cart"))
    /\ UNCHANGED <<now, blacklist, orders, loggedOut,
                 limVars, health, sideVars>>

\* the body POST /orders sends to the order service
OrderRequest(u, cart) ==
    [id |-> 0, userId |-> u, items |-> cart, total |-> CartTotal(cart)]

\* POST /orders resumes after redis.get(cartKey): 400 on `!cartData`, else
\* the order is submitted
CheckoutGetReply(r, ok) ==
    /\ req[r].pc = "co_get"
    /\ LET rq == req[r]
           cartData == CartData(CartKey(rq))
       IN IF ~ok
          THEN Set(r, Caught(rq, "cart_read", 500, "Failed to create order"))
          ELSE IF ~Truthy(cartData)
          THEN Set(r, Respond(rq, 400, "Cart is empty", <<>>))
          ELSE Set(r, [Step(rq, "co_order", "order_submit") EXCEPT
                          !.seen = cartData.items, !.cart = cartData.items,
                          !.order = OrderRequest(rq.user, cartData.items)])
    /\ UNCHANGED <<now, blacklist, carts, orders, loggedOut,
                 limVars, health, sideVars>>

\* a test of orderResponse.ok that every answer passes
ResponseOkAlways(out) == TRUE

\* orderResponse.ok
ResponseOk(out) == out = "created"

\* POST /orders resumes after fetch(`${order}/orders`) and the reading of
\* its body: the call threw ("failed"), the order service answered a
\* non-success status with a JSON body ("rejected") or with a body that is
\* no JSON ("unparsable"), or it created the order ("created")
CheckoutOrderReply(r, out) ==
    /\ req[r].pc = "co_order"
    /\ LET rq == req[r]
           order == [rq.order EXCEPT
                        !.id = IF out = "created" THEN Len(orders) + 1 ELSE 0]
       IN CASE out = "failed" ->
                 /\ Set(r, Caught(rq, "order_submit", 500, "Failed to create order"))
                 /\ orders' = orders
            [] out = "unparsable" ->
                 /\ Set(r, Caught(rq, "order_body", 500, "Failed to create order"))
                 /\ orders' = orders
            [] out \in {"rejected", "created"} /\ ~ResponseOk(out) ->
                 /\ Set(r, Respond(rq, 422, "order service error", <<>>))
                 /\ orders' = IF out = "created" THEN Append(orders, order)
                                                 ELSE orders
            [] out \in {"rejected", "created"} /\ ResponseOk(out) ->
                 /\ Set(r, [Step(rq, "co_del", "cart_del") EXCEPT !.order = order])
                 /\ orders' = IF out = "created" THEN Append(orders, order)
                                                 ELSE orders
    /\ UNCHANGED <<now, blacklist, carts, loggedOut,
                 limVars, health, sideVars>>

\* POST /orders resumes after redis.del(cartKey); a rejected del lands in
\* the outer catch
CheckoutDelReply(r, ok) ==
    /\ req[r].pc = "co_del"
    /\ IF ok
       THEN /\ DelCart(CartKey(req[r]))
            /\ Set(r, Step(req[r], "co_notify", "notify"))
       ELSE /\ carts' = carts
            /\ Set(r, Caught(req[r], "cart_del", 500, "Failed to create order"))
    /\ UNCHANGED <<now, blacklist, orders, loggedOut,
                 limVars, health, sideVars>>

\* a response that echoes the order as it was submitted
OrderJsonAsSubmitted(rq) == [rq.order EXCEPT !.id = 0]

\* res.status(201).json(order): order is what orderResponse.json() gave
OrderJson(rq) == rq.order

\* POST /orders resumes after the awaited fetch(`${notification}/notify`):
\* it answered ("ok"), answered an error status ("error") or threw
\* ("failed", caught and logged); 201 with the order in each case
CheckoutNotifyReply(r, out) ==
    /\ req[r].pc = "co_notify"
    /\ out \in {"ok", "error", "failed"}
    /\ Set(r, [Respond(req[r], 201, "", <<>>) EXCEPT
                   !.threw = IF out = "failed" THEN "notify" ELSE "",
                   !.payload = OrderJson(req[r])])
    /\ UNCHANGED <<now, blacklist, carts, orders, loggedOut,
                 limVars, health, sideVars>>

\* ------------------------------------------------------- request inputs
AuthRoutes == {"me", "logout"}

\* the routes served by a downstream service: POST /auth/register and
\* /auth/login, POST/PUT/DELETE on /products, GET /orders, POST
\* /orders/:id/cancel
OpenRoutes == {"register"}
GatedRoutes == {"product_admin", "orders_list", "cancel"}
ProxiedRoutes == OpenRoutes \cup GatedRoutes
CartRoutes == {"cart_get", "cart_add", "cart_sync", "cart_clear", "checkout"}

LineItem(p, q) == Item(p, Price(p), q)

\* the item lists of the /cart/sync bodies: none, two products, and one
\* product twice with the larger quantity first and last
SyncLists ==
    { <<>>,
      <<LineItem(1, 1), LineItem(2, 1)>>,
      <<LineItem(2, 2), LineItem(2, 1)>>,
      <<LineItem(1, 1), LineItem(1, 2)>> }

\* the <<productId, quantity>> of the /cart/add bodies
AddBodies == {<<1, 1>>, <<1, 2>>, <<2, 1>>}

\* the request bodies of a route
Args(route) ==
    CASE route = "cart_add" ->
            {[NoArg EXCEPT !.productId = b[1], !.quantity = b[2]] : b \in AddBodies}
      [] route = "cart_sync" ->
            {[NoArg EXCEPT !.items = l] : l \in SyncLists}
      [] route \in ProxiedRoutes ->
            {[NoArg EXCEPT !.userIdHeader = h] : h \in Users \cup {NoUser}}
      [] OTHER -> {NoArg}

Arrive(routes, toks) ==
    \E r \in ReqIds, route \in routes, tok \in toks :
        \E arg \in Args(route) : StartRequest(r, route, tok, arg)

ReleaseStep == \E r \in ReqIds : Release(r)

GateStep == Quiet /\ \E r \in ReqIds, ok \in BOOLEAN : GateReply(r, ok)

LogoutStep == Quiet /\ \E r \in ReqIds, ok \in BOOLEAN : LogoutSetexReply(r, ok)

CartStep ==
    Quiet /\ \E r \in ReqIds :
        \/ \E ok \in BOOLEAN : CartGetReply(r, ok)
        \/ \E ok \in BOOLEAN : AddGetReply(r, ok)
        \/ \E out \in {"found", "notfound", "failed"} : AddProductReply(r, out)
        \/ \E ok \in BOOLEAN : AddSetexReply(r, ok)
        \/ \E ok \in BOOLEAN : SyncGetReply(r, ok)
        \/ \E ok \in BOOLEAN : SyncSetexReply(r, ok)
        \/ \E ok \in BOOLEAN : ClearDelReply(r, ok)

CheckoutStep ==
    Quiet /\ \E r \in ReqIds :
        \/ \E ok \in BOOLEAN : CheckoutGetReply(r, ok)
        \/ \E out \in {"created", "rejected", "unparsable", "failed"} :
               CheckoutOrderReply(r, out)
        \/ \E ok \in BOOLEAN : CheckoutDelReply(r, ok)
        \/ \E out \in {"ok", "error", "failed"} : CheckoutNotifyReply(r, out)

\* no request is suspended in authenticateToken
NoneAtGate == \A r \in ReqIds : req[r].pc # "gate"

\* The cart and checkout routes behind the auth gate.  No step of this
\* specification writes a blacklist key or moves the clock, so that the
\* gate's lookup commutes with every other step: it is taken right after
\* the arrival, which leaves out no interleaving of the cart operations.
Next ==
    \/ NoneAtGate /\ Arrive(CartRoutes, {"tA", "tB"})
    \/ ReleaseStep
    \/ GateStep
    \/ NoneAtGate /\ CartStep
    \/ NoneAtGate /\ CheckoutStep

Spec == Init /\ [][Next]_vars

\* Spec with the event loop resuming every continuation whose awaited call
\* has settled, and the cache, the product service and the order service
\* settling every call; the notification service need not answer
CheckoutUpToNotify ==
    Quiet /\ \E r \in ReqIds :
        \/ \E ok \in BOOLEAN : CheckoutGetReply(r, ok)
        \/ \E out \in {"created", "rejected", "unparsable", "failed"} :
               CheckoutOrderReply(r, out)
        \/ \E ok \in BOOLEAN : CheckoutDelReply(r, ok)

SpecFair ==
    /\ Spec
    /\ WF_vars(ReleaseStep)
    /\ WF_vars(GateStep)
    /\ WF_vars(NoneAtGate /\ CartStep)
    /\ WF_vars(NoneAtGate /\ CheckoutUpToNotify)

\* the auth routes behind the auth gate, with the clock running
NextAuth ==
    \/ Arrive(AuthRoutes, Tokens \cup {NoToken})
    \/ ReleaseStep
    \/ Tick
    \/ GateStep
    \/ LogoutStep

SpecAuth == Init /\ [][NextAuth]_vars

\* POST /cart/add alone, with the clock running: the cache holds no cart
\* that a request of this route has not written
AddStep ==
    Quiet /\ \E r \in ReqIds :
        \/ \E ok \in BOOLEAN : AddGetReply(r, ok)
        \/ \E out \in {"found", "notfound", "failed"} : AddProductReply(r, out)
        \/ \E ok \in BOOLEAN : AddSetexReply(r, ok)

NextAdd ==
    \/ Arrive({"cart_add"}, {"tA", "tB"})
    \/ ReleaseStep
    \/ Tick
    \/ GateStep
    \/ AddStep

SpecAdd == Init /\ [][NextAdd]_vars

\* ---------------------------------------------------- the proxied routes
\* a request to a route without authenticateToken arrives: authProxy sends
\* it on
StartOpen(r, route, arg) ==
    /\ Quiet
    /\ req[r].pc = "idle"
    /\ r > 1 => req[r - 1].pc # "idle"
    /\ Set(r, AuthProxy([IdleReq EXCEPT !.route = route, !.arg = arg]))
    /\ UNCHANGED <<now, blacklist, carts, orders, loggedOut, limVars, health, sideVars>>

\* authProxy: the auth service answers and the answer is relayed
\* ("answered"), the connection fails ("failed"), or proxyTimeout /
\* timeout: 20000 runs out ("timeout"); onError answers 502 for both
AuthProxyReply(r, out) ==
    /\ req[r].pc = "px_auth"
    /\ IF out = "answered"
       THEN Set(r, Respond(req[r], 200, "", <<>>))
       ELSE Set(r, Caught(req[r], out, 502, "bad_gateway"))
    /\ UNCHANGED <<now, blacklist, carts, orders, loggedOut, limVars, health, sideVars>>

\* the proxies of the product routes and of GET /orders, without timeout
\* and without onError: the service answers and the answer is relayed, or
\* the connection fails and the proxy's own handler answers 504 with a
\* line of text
PlainProxyReply(r, out) ==
    /\ req[r].pc = "px_plain"
    /\ IF out = "answered"
       THEN Set(r, Respond(req[r], 200, "", <<>>))
       ELSE Set(r, [Respond(req[r], 504, "", <<>>) EXCEPT !.threw = out])
    /\ UNCHANGED <<now, blacklist, carts, orders, loggedOut, limVars, health, sideVars>>

\* POST /orders/:id/cancel resumes after fetch(`${order}/orders/${id}/cancel`)
\* and response.json(): the answer is relayed, or the call or the reading
\* of its body threw
CancelReply(r, out) ==
    /\ req[r].pc = "cn_fetch"
    /\ IF out = "answered"
       THEN Set(r, Respond(req[r], 200, "", <<>>))
       ELSE Set(r, Caught(req[r], out, 500, "Failed to cancel order"))
    /\ UNCHANGED <<now, blacklist, carts, orders, loggedOut, limVars, health, sideVars>>

ArriveProxied ==
    \/ Arrive(GatedRoutes, {"tA", "tB", NoToken})
    \/ \E r \in ReqIds, route \in OpenRoutes :
           \E arg \in Args(route) : StartOpen(r, route, arg)

\* the timers of authProxy
ProxyTimeoutStep == Quiet /\ \E r \in ReqIds : AuthProxyReply(r, "timeout")

\* the downstream services answer, or the connections to them fail
DownstreamStep ==
    Quiet /\ \E r \in ReqIds :
        \/ \E out \in {"answered", "failed"} : AuthProxyReply(r, out)
        \/ \E out \in {"answered", "failed"} : PlainProxyReply(r, out)
        \/ \E out \in {"answered", "unparsable", "failed"} : CancelReply(r, out)

NextProxy ==
    \/ ArriveProxied
    \/ ReleaseStep
    \/ GateStep
    \/ ProxyTimeoutStep
    \/ DownstreamStep

SpecProxy == Init /\ [][NextProxy]_vars

\* SpecProxy with the event loop resuming every continuation whose call
\* has settled, the cache settling every call and the timers the gateway
\* has set running out; a downstream service need not answer, and a
\* connection to it need not fail
SpecProxyFair ==
    /\ SpecProxy
    /\ WF_vars(ReleaseStep)
    /\ WF_vars(GateStep)
    /\ WF_vars(ProxyTimeoutStep)

\* ------------------------------------------------- checkouts of a cart
\* the cart an AddItem of two of product 1 has stored for alice
StoredCarts ==
    [u \in Users |->
        IF u = "alice"
        THEN [present |-> TRUE, items |-> <<LineItem(1, 2)>>, exp |-> CartTtl]
        ELSE NoCart]

\* the gateway with a cart in the cache: alice's AddItem has been answered
InitCart ==
    /\ now = 0
    /\ blacklist = [t \in Tokens |-> 0]
    /\ carts = StoredCarts
    /\ orders = <<>>
    /\ req = [r \in ReqIds |-> IdleReq]
    /\ loggedOut = {}
    /\ hits = [pol \in Policies |-> [c \in Clients |-> 0]]
    /\ resetAt = [pol \in Policies |-> [c \in Clients |-> 0]]
    /\ lim = [r \in LimIds |-> IdleLim]
    /\ asked = [pol \in Policies |-> [c \in Clients |-> 0]]
    /\ since = [pol \in Policies |-> [c \in Clients |-> 0]]
    /\ passed = [pol \in Policies |-> [c \in Clients |-> 0]]
    /\ health = IdleHealth
    /\ proc = "up"
    /\ ws = [c \in Conns |-> NoSocket]
    /\ userConnections = NoConnections
    /\ lastSend = NoSend
    /\ att = [a \in Attempts |-> NoAttempt]
    /\ reconnectTimer = FALSE
    /\ rabbitConnection = 0
    /\ rabbitChannel = 0

SyncStep ==
    Quiet /\ \E r \in ReqIds :
        \/ \E ok \in BOOLEAN : SyncGetReply(r, ok)
        \/ \E ok \in BOOLEAN : SyncSetexReply(r, ok)

\* alice's AddItem, SyncCart and checkout requests, interleaved: the only
\* step that deletes a cart is the delete of a checkout
NextCart ==
    \/ NoneAtGate /\ Arrive({"cart_add", "cart_sync", "checkout"}, {"tA"})
    \/ ReleaseStep
    \/ GateStep
    \/ NoneAtGate /\ AddStep
    \/ NoneAtGate /\ SyncStep
    \/ NoneAtGate /\ CheckoutStep

SpecCart == InitCart /\ [][NextCart]_vars

\* ------------------------------------- notification service: WebSocket
\* userConnections.has(u)
Has(u) == u \in DOMAIN userConnections

\* `if (!userConnections.has(userId)) userConnections.set(userId, new
\* Set())` and `userConnections.get(userId).add(ws)`
Register(c, u) ==
    [v \in DOMAIN userConnections \cup {u} |->
        IF v = u
        THEN (IF Has(u) THEN userConnections[u] ELSE {}) \cup {c}
        ELSE userConnections[v]]

\* `userConnections.get(userId).delete(ws)` and the clean-up of an empty
\* set
Unregister(c, u) ==
    IF userConnections[u] \ {c} = {}
    THEN [v \in DOMAIN userConnections \ {u} |-> userConnections[v]]
    ELSE [userConnections EXCEPT ![u] = @ \ {c}]

\* wss.on("connection"): a client connects; the closure starts with
\* userId = null
WsConnection(c) ==
    /\ ws[c].state = "none"
    /\ \A d \in Conns : d < c => ws[d].state # "none"
    /\ ws' = [ws EXCEPT ![c] = [state |-> "open", userId |-> NoUser]]
    /\ UNCHANGED <<gwVars, userConnections, lastSend, mqVars>>

\* ws.on("message") with {type: "auth", userId: u}
WsAuth(c, u) ==
    /\ ws[c].state = "open"
    /\ ws' = [ws EXCEPT ![c].userId = u]
    /\ userConnections' = Register(c, u)
    /\ UNCHANGED <<gwVars, lastSend, mqVars>>

\* the socket starts closing: readyState is no longer OPEN, the close
\* event is still to come
WsClosing(c) ==
    /\ ws[c].state = "open"
    /\ ws' = [ws EXCEPT ![c].state = "closing"]
    /\ UNCHANGED <<gwVars, userConnections, lastSend, mqVars>>

\* ws.on("close")
WsClose(c) ==
    /\ ws[c].state \in {"open", "closing"}
    /\ ws' = [ws EXCEPT ![c].state = "closed"]
    /\ userConnections' =
           IF ws[c].userId # NoUser /\ Has(ws[c].userId)
           THEN Unregister(c, ws[c].userId)
           ELSE userConnections
    /\ UNCHANGED <<gwVars, lastSend, mqVars>>

\* sendToUser(u, message), called by POST /notify and by the consumer of
\* order_notifications: to every connection in the set of u whose
\* readyState is OPEN
SendToUser(u) ==
    /\ lastSend' =
           [user |-> u,
            to |-> IF Has(u)
                   THEN {<<c, ws[c].userId>> :
                            c \in {d \in userConnections[u] : ws[d].state = "open"}}
                   ELSE {}]
    /\ UNCHANGED <<gwVars, ws, userConnections, mqVars>>

NextSocket ==
    \/ \E c \in Conns : WsConnection(c)
    \/ \E c \in Conns, u \in Users : WsAuth(c, u)
    \/ \E c \in Conns : WsClosing(c)
    \/ \E c \in Conns : WsClose(c)
    \/ \E u \in Users : SendToUser(u)

SpecSocket == Init /\ [][NextSocket]_vars

\* -------------------------------------- notification service: RabbitMQ
\* scheduleReconnect(): `if (reconnectTimer) return;`, else a timer is set
ScheduleReconnect == reconnectTimer' = (IF reconnectTimer THEN reconnectTimer ELSE TRUE)

\* the call of connectRabbitMQ that comes next
NextAttempt(a) ==
    /\ att[a].pc = "idle"
    /\ \A b \in Attempts : b < a => att[b].pc # "idle"

\* connectRabbitMQ() up to `await amqp.connect(...)`; when buildAmqpUrl()
\* throws (~urlOk) the call schedules a reconnect and returns
ConnectRabbitMQ(a, urlOk) ==
    att' = [att EXCEPT ![a].pc = IF urlOk THEN "connect" ELSE "done"]

\* the callback of server.listen calls connectRabbitMQ()
Listening(urlOk) ==
    /\ NextAttempt(1)
    /\ ~reconnectTimer
    /\ ConnectRabbitMQ(1, urlOk)
    /\ reconnectTimer' = ~urlOk
    /\ UNCHANGED <<gwVars, wsVars, rabbitConnection, rabbitChannel>>

\* the reconnect timer fires: `reconnectTimer = null; connectRabbitMQ();`
TimerFire(a, urlOk) ==
    /\ reconnectTimer
    /\ NextAttempt(a)
    /\ ConnectRabbitMQ(a, urlOk)
    /\ reconnectTimer' = ~urlOk
    /\ UNCHANGED <<gwVars, wsVars, rabbitConnection, rabbitChannel>>

\* connectRabbitMQ resumes after amqp.connect(): the connection is there,
\* or the catch block schedules a reconnect
ConnectReply(a, ok) ==
    /\ att[a].pc = "connect"
    /\ IF ok
       THEN /\ att' = [att EXCEPT ![a].pc = "channel", ![a].link = "live"]
            /\ rabbitConnection' = a
            /\ UNCHANGED reconnectTimer
       ELSE /\ att' = [att EXCEPT ![a].pc = "done"]
            /\ ScheduleReconnect
            /\ UNCHANGED rabbitConnection
    /\ UNCHANGED <<gwVars, wsVars, rabbitChannel>>

\* connectRabbitMQ resumes after rabbitConnection.createChannel(); on a
\* failure the catch block schedules a reconnect and the connection is
\* left as it is
ChannelReply(a, ok) ==
    /\ att[a].pc = "channel"
    /\ ok => att[a].link = "live"
    /\ IF ok
       THEN /\ att' = [att EXCEPT ![a].pc = "queue"]
            /\ rabbitChannel' = a
            /\ UNCHANGED reconnectTimer
       ELSE /\ att' = [att EXCEPT ![a].pc = "done"]
            /\ ScheduleReconnect
            /\ UNCHANGED rabbitChannel
    /\ UNCHANGED <<gwVars, wsVars, rabbitConnection>>

\* connectRabbitMQ resumes after assertQueue("order_notifications"): the
\* consumer is started and the handlers of "error" and "close" are set
QueueReply(a, ok) ==
    /\ att[a].pc = "queue"
    /\ ok => att[a].link = "live"
    /\ IF ok
       THEN /\ att' = [att EXCEPT ![a].pc = "done", ![a].consumer = TRUE,
                                   ![a].handlers = TRUE]
            /\ UNCHANGED reconnectTimer
       ELSE /\ att' = [att EXCEPT ![a].pc = "done"]
            /\ ScheduleReconnect
    /\ UNCHANGED <<gwVars, wsVars, rabbitConnection, rabbitChannel>>

\* the connection emits "error": it is lost, its "close" is still to come
ConnError(a) ==
    /\ att[a].link = "live"
    /\ att' = [att EXCEPT ![a].link = "errored", ![a].consumer = FALSE]
    /\ IF att[a].handlers THEN ScheduleReconnect ELSE UNCHANGED reconnectTimer
    /\ UNCHANGED <<gwVars, wsVars, rabbitConnection, rabbitChannel>>

\* the connection emits "close"
ConnClose(a) ==
    /\ att[a].link \in {"live", "errored"}
    /\ att' = [att EXCEPT ![a].link = "closed", ![a].consumer = FALSE]
    /\ IF att[a].handlers THEN ScheduleReconnect ELSE UNCHANGED reconnectTimer
    /\ UNCHANGED <<gwVars, wsVars, rabbitConnection, rabbitChannel>>

NextRabbit ==
    \/ \E urlOk \in BOOLEAN : Listening(urlOk)
    \/ \E a \in Attempts, urlOk \in BOOLEAN : TimerFire(a, urlOk)
    \/ \E a \in Attempts, ok \in BOOLEAN : ConnectReply(a, ok)
    \/ \E a \in Attempts, ok \in BOOLEAN : ChannelReply(a, ok)
    \/ \E a \in Attempts, ok \in BOOLEAN : QueueReply(a, ok)
    \/ \E a \in Attempts : ConnError(a)
    \/ \E a \in Attempts : ConnClose(a)

SpecRabbit == Init /\ [][NextRabbit]_vars

\* ------------------------------------------------------------- shutdown
\* a request the gateway has accepted and not answered
InFlight(rq) == rq.pc \notin {"idle", "done", "hung", "released", "cut"}

\* the process runs
Running == proc # "exited"

\* SIGTERM or SIGINT: shutdown() runs to await redis.quit().  The HTTP
\* server is not closed: requests go on arriving and running
ShutdownSignal ==
    /\ Quiet
    /\ proc = "up"
    /\ proc' = "quitting"
    /\ UNCHANGED <<now, blacklist, carts, orders, req, loggedOut, limVars, health,
                   wsVars, mqVars>>

\* shutdown() resumes after redis.quit(), resolved (ok) or rejected and
\* logged: process.exit(0).  Every request still in flight is cut off
Exit(ok) ==
    /\ Quiet
    /\ proc = "quitting"
    /\ proc' = "exited"
    /\ req' = [r \in ReqIds |->
                  IF InFlight(req[r]) THEN [req[r] EXCEPT !.pc = "cut"] ELSE req[r]]
    /\ UNCHANGED <<now, blacklist, carts, orders, loggedOut, limVars, health,
                   wsVars, mqVars>>

ExitStep == \E ok \in BOOLEAN : Exit(ok)

ReadClearStep ==
    Quiet /\ \E r \in ReqIds :
        \/ \E ok \in BOOLEAN : CartGetReply(r, ok)
        \/ \E ok \in BOOLEAN : ClearDelReply(r, ok)

\* GET /cart and DELETE /cart requests, and a shutdown signal at any
\* moment; after the exit nothing runs
NextShutdown ==
    \/ Running /\ Arrive({"cart_get", "cart_clear"}, {"tA", "tB", NoToken})
    \/ Running /\ ReleaseStep
    \/ Running /\ GateStep
    \/ Running /\ ReadClearStep
    \/ ShutdownSignal
    \/ ExitStep

SpecShutdown == Init /\ [][NextShutdown]_vars

\* -------------------------------------------------------- optional auth
\* optionalAuth without the test of isBlacklisted
OptionalAuthNoRevocation(rq, ok) ==
    IF ~ok THEN [rq EXCEPT !.threw = "blacklist_read", !.steps = Append(@, "next")]
    ELSE IF Verify(rq.token)
    THEN [rq EXCEPT !.user = TokenUser(rq.token), !.steps = Append(@, "next")]
    ELSE [rq EXCEPT !.threw = "verify", !.steps = Append(@, "next")]

\* optionalAuth, after the blacklist lookup has answered (ok) or thrown
\* (~ok): the catch block swallows a failed lookup and a failed
\* verification, and next() is called in every case
OptionalAuth(rq, ok) ==
    IF ~ok THEN [rq EXCEPT !.threw = "blacklist_read", !.steps = Append(@, "next")]
    ELSE IF Blacklisted(rq.token)
    THEN [rq EXCEPT !.steps = Append(@, "next")]
    ELSE IF Verify(rq.token)
    THEN [rq EXCEPT !.user = TokenUser(rq.token), !.steps = Append(@, "next")]
    ELSE [rq EXCEPT !.threw = "verify", !.steps = Append(@, "next")]

\* GET /products arrives: optionalAuth runs to its await, or, without a
\* token, straight to next(), the proxy to the product service
StartOptional(r, tok, arg) ==
    /\ Quiet
    /\ req[r].pc = "idle"
    /\ r > 1 => req[r - 1].pc # "idle"
    /\ LET rq == [IdleReq EXCEPT !.route = "products", !.token = tok, !.arg = arg]
       IN IF tok = NoToken
          THEN Set(r, PlainProxy([rq EXCEPT !.steps = Append(@, "next")]))
          ELSE Set(r, Step(rq, "ogate", "blacklist_read"))
    /\ UNCHANGED <<now, blacklist, carts, orders, loggedOut, limVars, health, sideVars>>

\* optionalAuth resumes after redis.get(`blacklist:${token}`)
OptGateReply(r, ok) ==
    /\ req[r].pc = "ogate"
    /\ Set(r, PlainProxy(OptionalAuth(req[r], ok)))
    /\ UNCHANGED <<now, blacklist, carts, orders, loggedOut, limVars, health, sideVars>>

OptGateStep == Quiet /\ \E r \in ReqIds, ok \in BOOLEAN : OptGateReply(r, ok)

ProductStep ==
    Quiet /\ \E r \in ReqIds, out \in {"answered", "failed"} : PlainProxyReply(r, out)

\* GET /products behind optionalAuth, next to logout, with the clock
\* running
NextOptional ==
    \/ \E r \in ReqIds, tok \in Tokens \cup {NoToken} : StartOptional(r, tok, NoArg)
    \/ Arrive({"logout"}, {"tA", "tB"})
    \/ ReleaseStep
    \/ Tick
    \/ GateStep
    \/ LogoutStep
    \/ OptGateStep
    \/ ProductStep

SpecOptional == Init /\ [][NextOptional]_vars

\* every route behind authenticateToken, for one user and for requests
\* without a token
NextGated ==
    \/ Arrive(AuthRoutes \cup CartRoutes \cup GatedRoutes, {"tA", NoToken})
    \/ ReleaseStep
    \/ GateStep
    \/ LogoutStep
    \/ CartStep
    \/ CheckoutStep
    \/ DownstreamStep

SpecGated == Init /\ [][NextGated]_vars

\* ------------------------------------------------------- the health route
\* GET /health arrives: the handler runs to await redis.ping()
HealthArrive ==
    /\ health.pc = "idle"
    /\ health' = NewHealth
    /\ UNCHANGED <<now, blacklist, carts, orders, req, loggedOut, limVars, sideVars>>

\* the handler resumes after redis.ping() and sends a probe to every
\* service
PingReply(ok) ==
    /\ health.pc = "ping"
    /\ health' = IF ok
                 THEN [health EXCEPT !.pc = "probes", !.cache = "connected"]
                 ELSE [health EXCEPT !.pc = "probes", !.cache = "disconnected",
                                     !.status = "degraded"]
    /\ UNCHANGED <<now, blacklist, carts, orders, req, loggedOut, limVars, sideVars>>

\* health.services[name] = response.ok ? "healthy" : "unhealthy", and the
\* catch block of a probe that threw or was aborted after 2000 ms
Probed(h, name, out) ==
    CASE out = "ok" -> [h EXCEPT !.services[name] = "healthy"]
      [] out = "notok" -> [h EXCEPT !.services[name] = "unhealthy"]
      [] out = "failed" -> [h EXCEPT !.services[name] = "unreachable",
                                     !.status = "degraded"]

\* the probe of a service settles; Promise.all resumes the handler after
\* the last one, and the handler asks the auth service for the database
ProbeReply(name, out) ==
    /\ health.pc = "probes"
    /\ health.services[name] = ""
    /\ LET h == Probed(health, name, out)
       IN health' = IF \A n \in Services : h.services[n] # ""
                    THEN [h EXCEPT !.pc = "database"] ELSE h
    /\ UNCHANGED <<now, blacklist, carts, orders, req, loggedOut, limVars, sideVars>>

\* the handler resumes after the fetch of the auth service's health and
\* answers: res.status(health.status === "healthy" ? 200 : 503).json(health)
DatabaseReply(out) ==
    /\ health.pc = "database"
    /\ health' = [health EXCEPT
                      !.pc = "done",
                      !.database = IF out = "ok" THEN "connected" ELSE "unknown",
                      !.code = IF health.status = "healthy" THEN 200 ELSE 503]
    /\ UNCHANGED <<now, blacklist, carts, orders, req, loggedOut, limVars, sideVars>>

\* the answered request is released
HealthRelease ==
    /\ health.pc = "done"
    /\ health' = IdleHealth
    /\ UNCHANGED <<now, blacklist, carts, orders, req, loggedOut, limVars, sideVars>>

NextHealth ==
    \/ HealthArrive
    \/ \E ok \in BOOLEAN : PingReply(ok)
    \/ \E name \in Services, out \in {"ok", "notok", "failed"} : ProbeReply(name, out)
    \/ \E out \in {"ok", "failed"} : DatabaseReply(out)
    \/ HealthRelease

SpecHealth == Init /\ [][NextHealth]_vars

\* ------------------------------------------------------ the rate limiters
\* express-rate-limit with its in-memory store (no store is configured):
\* a request is counted under the key of its client, increment answers the
\* count and the counting is one synchronous statement of the store; a
\* count above max is answered 429 with the limiter's message.

\* max: 100 for both limiters
LimitLoose(policy) == GeneralMax

\* max: 100 of generalLimiter, max: 10 of authLimiter
Limit(policy) == IF policy = "auth" THEN AuthMax ELSE GeneralMax

\* message of a limiter
Message(policy) ==
    IF policy = "auth" THEN "Too many authentication attempts"
    ELSE "Too many requests, please try again later"

\* generalLimiter on the paths authLimiter is not mounted on
CoversApart(policy, path) ==
    IF policy = "general" THEN path = "other" ELSE path = "auth"

\* the paths a limiter counts: app.use(generalLimiter) with
\* skip: req.path === "/health", and app.use("/auth", authLimiter)
Covers(policy, path) ==
    IF policy = "general" THEN path # "health" ELSE path = "auth"

\* the end of a window that begins at t.  (A store that resets all keys on
\* one clock, every windowMs from the start of the process, ends the
\* windows at the same times: the requests arrive at multiples of windowMs.)
WindowEnd(t) == t + WindowSec

\* the window of the key has run out (or the key was never hit)
Expired(policy, c) == resetAt[policy][c] <= now

\* an increment that answers the count without adding to it
TotalHitsStale(policy, c) ==
    IF Expired(policy, c) THEN 1 ELSE Max(hits[policy][c], 1)

\* store.increment(key): totalHits
TotalHits(policy, c) == IF Expired(policy, c) THEN 1 ELSE hits[policy][c] + 1

\* the window of the history has run out
SinceOver(policy, c) ==
    \/ asked[policy][c] = 0
    \/ now >= since[policy][c] + WindowSec

\* the limiter of a policy takes request rq of slot r: it counts the hit
\* and answers 429 or lets the request go on as next
Limiter(policy, r, rq, next) ==
    LET c == rq.client
        total == TotalHits(policy, c)
        pass == total <= Limit(policy)
    IN /\ hits' = [hits EXCEPT ![policy][c] = total]
       /\ resetAt' = [resetAt EXCEPT ![policy][c] =
                         IF Expired(policy, c) THEN WindowEnd(now) ELSE @]
       /\ lim' = [lim EXCEPT ![r] =
                     IF pass THEN next
                     ELSE [rq EXCEPT !.pc = "done", !.status = 429,
                                     !.error = Message(policy), !.by = policy]]
       /\ asked' = [asked EXCEPT ![policy][c] =
                       IF SinceOver(policy, c) THEN 1 ELSE @ + 1]
       /\ since' = [since EXCEPT ![policy][c] =
                       IF SinceOver(policy, c) THEN now ELSE @]
       /\ passed' = [passed EXCEPT ![policy][c] =
                        (IF SinceOver(policy, c) THEN 0 ELSE @)
                            + (IF pass THEN 1 ELSE 0)]

\* the request has passed the limiters mounted on its path: its route
\* answers
Admitted(rq) == [rq EXCEPT !.pc = "done", !.status = 200]

\* next() of generalLimiter: authLimiter on /auth, else the route
AfterGeneral(rq) ==
    IF Covers("auth", rq.path) THEN [rq EXCEPT !.pc = "auth_limiter"]
    ELSE Admitted(rq)

LimEnded(r) == lim[r].pc = "done"

LimQuiet == \A r \in LimIds : ~LimEnded(r)

\* the requests the first client sends inside a window
Cap(policy) == Limit(policy) + MaxOver

\* the second client has sent the one request of it that the limiters count
OtherCounted == asked["general"]["c2"] > 0

\* a request of client c arrives: generalLimiter
LimArrive(r, c, path) ==
    /\ LimQuiet
    /\ lim[r].pc = "idle"
    /\ \A q \in 1..(r - 1) : lim[q].pc # "idle"
    /\ c = "c2" => ~OtherCounted
    /\ \A policy \in Policies :
          Covers(policy, path)
              => Expired(policy, c) \/ hits[policy][c] < Cap(policy)
    /\ LET rq == [IdleLim EXCEPT !.client = c, !.path = path]
       IN IF Covers("general", path)
          THEN Limiter("general", r, rq, AfterGeneral(rq))
          ELSE /\ lim' = [lim EXCEPT ![r] = AfterGeneral(rq)]
               /\ UNCHANGED <<hits, resetAt, asked, since, passed>>
    /\ UNCHANGED <<now, blacklist, carts, orders, req, loggedOut, health, sideVars>>

\* authLimiter takes the request generalLimiter has passed on
AuthLimiterStep(r) ==
    /\ LimQuiet
    /\ lim[r].pc = "auth_limiter"
    /\ Limiter("auth", r, lim[r], Admitted(lim[r]))
    /\ UNCHANGED <<now, blacklist, carts, orders, req, loggedOut, health, sideVars>>

\* an answered request is released
LimRelease(r) ==
    /\ LimEnded(r)
    /\ lim' = [lim EXCEPT ![r] = IdleLim]
    /\ UNCHANGED <<now, blacklist, carts, orders, req, loggedOut,
                   hits, resetAt, asked, since, passed, health, sideVars>>

\* time passes; a request is through the limiters within the second it
\* has arrived in
Elapse ==
    /\ \A r \in LimIds : lim[r].pc = "idle"
    /\ \E t \in Instants : t > now /\ now' = t
    /\ UNCHANGED <<blacklist, carts, orders, req, loggedOut, limVars, health, sideVars>>

LimArriveStep ==
    \E r \in LimIds, c \in Clients, path \in PathKinds : LimArrive(r, c, path)

NextLimit ==
    \/ LimArriveStep
    \/ \E r \in LimIds : AuthLimiterStep(r)
    \/ \E r \in LimIds : LimRelease(r)
    \/ Elapse

SpecLimit == Init /\ [][NextLimit]_vars

\* ======================================================= the auth gate
\* the step in which authenticateToken decides on request r
GateDecides(r) == req[r].pc = "gate" /\ req'[r].pc # "gate"

\* the token store holds a revocation record of the token
RecordLives(t) == blacklist[t] > now

\* the gate attached the claims and called next()
Passed(rq) == Did(rq, "next") /\ rq.user = TokenUser(rq.token)

\* the gate answered the request itself: no identity, no handler
Rejected(rq, status, error) ==
    /\ rq.pc = "done" /\ rq.status = status /\ rq.error = error
    /\ rq.user = NoUser
    /\ rq.steps = <<"blacklist_read", "respond">>

C2_Claim ==
    [][\A r \in ReqIds :
          (/\ GateDecides(r)
           /\ TokenSigned(req[r].token)
           /\ now < TokenExp(req[r].token)
           /\ ~RecordLives(req[r].token))
              => Passed(req'[r])]_vars

\* the rejection C3 as stated allows for a logged-out token
C3_RejectedAsStated(r) ==
    IF RecordLives(req[r].token)
    THEN Rejected(req'[r], 401, "Token has been revoked")
    ELSE /\ now >= TokenExp(req[r].token)
         /\ Rejected(req'[r], 403, "Invalid or expired token")

\* the revocation record is written with the token's remaining lifetime at
\* logout as its time-to-live
C3_TtlIsRemainingLife(r) ==
    /\ (GateDecides(r) /\ req'[r].pc = "lo_setex")
           => req'[r].ttl = TokenExp(req[r].token) - now
    /\ (req[r].pc = "lo_setex" /\ req'[r].pc = "done")
           => blacklist'[req[r].token] = now + req[r].ttl

Lines(cart, p) == {i \in 1..Len(cart) : cart[i].productId = p}

\* the quantity of product p in a cart, 0 when the cart has no line of it
RECURSIVE Qty(_, _)
Qty(cart, p) ==
    IF cart = <<>> THEN 0
    ELSE (IF Head(cart).productId = p THEN Head(cart).quantity ELSE 0)
             + Qty(Tail(cart), p)

\* the largest quantity an item list carries for product p, 0 when none
RECURSIVE MaxQtyIn(_, _)
MaxQtyIn(items, p) ==
    IF items = <<>> THEN 0
    ELSE Max(IF Head(items).productId = p THEN Head(items).quantity ELSE 0,
             MaxQtyIn(Tail(items), p))

\* the step in which request r leaves position pc
Leaves(r, pc) == req[r].pc = pc /\ req'[r].pc # pc

\* C4 as stated, with a failed read of the cart set aside: when the cart
\* that checkout reads has no line items (no stored cart, or a stored empty
\* sequence), checkout answers 400 "Cart is empty" and sends nothing to the
\* order service.
C4_Claim ==
    [][\A r \in ReqIds :
          (Leaves(r, "co_get") /\ GetCartBody(req[r].user) = <<>>)
              => /\ ~Did(req'[r], "order_submit")
                 /\ req'[r].threw = ""
                        => req'[r].status = 400 /\ req'[r].error = "Cart is empty"]_vars

\* the order service has created the order of checkout request rq
OrderCreated(rq) == rq.route = "checkout" /\ rq.order.id > 0

C7_Claim ==
    \A r \in ReqIds :
        (req[r].pc = "co_notify") ~> (req[r].pc = "done" /\ req[r].status = 201)

\* the write of request r has no interleaved writer: the stored cart is
\* still the one r has read
Unraced(r) == GetCartBody(req[r].user) = req[r].seen

\* C8: an AddItem(U, p, q) that succeeds without an interleaved writer
\* leaves exactly one line item of p in U's cart, with the quantity p had
\* before plus q, and every other line as it was; by induction n such calls
\* in sequence add up to the sum of their quantities.
C8_AddItemAccumulates ==
    [][\A r \in ReqIds :
          (Leaves(r, "ca_setex") /\ req'[r].status = 200 /\ Unraced(r))
              => LET old == req[r].seen
                     new == (GetCartBody(req[r].user))'
                     p == req[r].arg.productId
                 IN /\ Cardinality(Lines(new, p)) = 1
                    /\ Qty(new, p) = Qty(old, p) + req[r].arg.quantity
                    /\ req'[r].body = new
                    /\ \A i \in 1..Len(old) :
                           old[i].productId # p => new[i] = old[i]
                    /\ Len(new) = Len(old) + (IF Lines(old, p) = {} THEN 1 ELSE 0)]_vars

\* a second AddItem of a product is answered a cart with one line of it,
\* carrying the sum of the two quantities
C8_Witness ==
    \E r \in ReqIds :
        /\ req[r].route = "cart_add" /\ req[r].pc = "done" /\ req[r].status = 200
        /\ Qty(req[r].seen, req[r].arg.productId) > 0
        /\ Cardinality(Lines(req[r].body, req[r].arg.productId)) = 1
        /\ Qty(req[r].body, req[r].arg.productId) = 3
        /\ GetCartBody(req[r].user) = req[r].body

\* C9: a SyncCart that succeeds without an interleaved writer leaves, for
\* every productId, one line with the larger of the stored quantity and the
\* largest incoming quantity (a missing one counting as none); stored lines
\* keep their place and lose no quantity, new productIds are appended.
C9_SyncIsMax ==
    [][\A r \in ReqIds :
          (Leaves(r, "cs_setex") /\ req'[r].status = 200 /\ Unraced(r))
              => LET old == req[r].seen
                     inc == req[r].arg.items
                     new == (GetCartBody(req[r].user))'
                 IN /\ \A p \in Products :
                           /\ Qty(new, p) = Max(Qty(old, p), MaxQtyIn(inc, p))
                           /\ Cardinality(Lines(new, p)) =
                                  (IF Lines(old, p) \cup Lines(inc, p) = {}
                                   THEN 0 ELSE 1)
                           /\ (Lines(old, p) = {} /\ Lines(inc, p) # {})
                                  => \A i \in Lines(new, p) : i > Len(old)
                    /\ Len(new) >= Len(old)
                    /\ \A i \in 1..Len(old) :
                           /\ new[i].productId = old[i].productId
                           /\ new[i].quantity >= old[i].quantity]_vars

\* a sync carries a smaller quantity than the stored one for one product and
\* a new product: the stored quantity stays and the new product is appended
C9_Witness ==
    \E r \in ReqIds, p \in Products :
        /\ req[r].route = "cart_sync" /\ req[r].pc = "done" /\ req[r].status = 200
        /\ Lines(req[r].arg.items, p) # {}
        /\ Qty(req[r].seen, p) > MaxQtyIn(req[r].arg.items, p)
        /\ Qty(req[r].body, p) = Qty(req[r].seen, p)
        /\ Len(req[r].body) > Len(req[r].seen)

\* C10: every stored cart has at most one line item per productId.
C10_UniqueProductIds ==
    \A u \in Users, p \in Products : Cardinality(Lines(carts[u].items, p)) <= 1

\* an AddItem is about to write a cart it has read before another request
\* stored a line of the same product
C10_Witness ==
    \E r \in ReqIds :
        /\ req[r].pc = "ca_setex"
        /\ Lines(req[r].seen, req[r].arg.productId) = {}
        /\ Lines(GetCartBody(req[r].user), req[r].arg.productId) # {}

\* ================================================= the cart under races
\* the line items stored under the cart key of user u
Stored(u) == IF carts[u].present /\ carts[u].exp > now THEN carts[u].items ELSE <<>>

\* C11: the write of an AddItem takes no lock and compares nothing: when it
\* succeeds the stored cart is the one computed from the request's own
\* read, with the quantity read plus the quantity asked for, whatever was
\* stored in between; so an AddItem of the same product stored in between
\* is lost (the last write wins).
C11_LastWriteWins ==
    [][\A r \in ReqIds :
          (Leaves(r, "ca_setex") /\ req'[r].status = 200)
              => LET u == req[r].user
                     p == req[r].arg.productId
                     q == req[r].arg.quantity
                 IN /\ Stored(u)' = req[r].cart
                    /\ Qty(Stored(u)', p) = Qty(req[r].seen, p) + q
                    /\ Qty(Stored(u), p) > Qty(req[r].seen, p)
                           => Qty(Stored(u)', p) < Qty(Stored(u), p) + q]_vars

\* two AddItem requests of one user and one product have both read the
\* cart before either wrote and both are answered 200: the second write
\* replaced the first, and the stored quantity is less than the two
\* quantities together
C11_Witness ==
    \E r \in ReqIds :
        LET p == req[r].arg.productId
        IN /\ req[r].route = "cart_add" /\ req[r].pc = "done"
           /\ req[r].status = 200
           /\ Qty(req[r].seen, p) = 0
           /\ Qty(req[r].over, p) > 0
           /\ Stored(req[r].user) = req[r].body
           /\ Qty(Stored(req[r].user), p) < Qty(req[r].over, p) + req[r].arg.quantity

\* request r takes a step of its handler
Steps(r) == req'[r] # req[r] /\ req'[r].pc # "released"

\* C12: a cart belongs to one user.  A step of a request authenticated as
\* user A leaves the stored cart of every other user as it was; what it
\* reads (the body of GetCart, the cart AddItem, SyncCart and checkout work
\* on) is the cart stored for A, what it writes or deletes is the cart
\* stored for A; and a stored cart changes only in a step of a request of
\* its own user.  So what A's GetCart returns is a function of the cart
\* stored for A, which no operation of B changes.
C12_CartIsolation ==
    [][/\ \A r \in ReqIds :
             (Steps(r) /\ req[r].user \in Users)
                 => LET a == req[r].user
                    IN /\ \A b \in Users \ {a} : carts'[b] = carts[b]
                       /\ (Leaves(r, "cg_get") /\ req'[r].status = 200)
                              => req'[r].body = Stored(a)
                       /\ (Leaves(r, "ca_get") \/ Leaves(r, "cs_get")
                               \/ Leaves(r, "co_get"))
                              => \/ req'[r].pc = "done"
                                 \/ req'[r].seen = Stored(a)
                       /\ (Leaves(r, "co_get") /\ req'[r].pc = "co_order")
                              => /\ req'[r].order.userId = a
                                 /\ req'[r].order.items = Stored(a)
                       /\ ((Leaves(r, "ca_setex") \/ Leaves(r, "cs_setex"))
                               /\ req'[r].status = 200)
                              => Stored(a)' = req[r].cart
                       /\ ((Leaves(r, "cc_del") /\ req'[r].status = 200)
                               \/ (Leaves(r, "co_del") /\ req'[r].pc = "co_notify"))
                              => carts'[a] = NoCart
       /\ \A u \in Users :
             carts'[u] # carts[u]
                 => \E r \in ReqIds : Steps(r) /\ req[r].user = u]_vars

\* a user has cleared the cart, and the cart of the other user still
\* holds its items
C12_Witness ==
    \E r \in ReqIds, a \in Users :
        /\ req[r].route = "cart_clear" /\ req[r].pc = "done"
        /\ req[r].status = 200
        /\ req[r].user \in Users \ {a}
        /\ Stored(req[r].user) = <<>>
        /\ Stored(a) # <<>>

\* C13 as stated: an AddItem of a product that is not in the cart is
\* answered ProductNotFound (404) when the product lookup answers
\* not-found and UpstreamUnavailable (502) when the lookup cannot be
\* completed; in both cases the stored carts and their time-to-live are
\* as before.
C13_Claim ==
    [][\A r \in ReqIds :
          (Leaves(r, "ca_prod") /\ req'[r].pc = "done")
              => /\ carts' = carts
                 /\ IF req'[r].threw = "product_lookup"
                    THEN req'[r].status = 502
                    ELSE /\ req'[r].status = 404
                         /\ req'[r].error = "Product not found"]_vars

\* ================================================== the rate limiters
\* the step in which the limiter of a policy decides on request r
Decides(r, policy) ==
    IF policy = "general"
    THEN lim[r].pc = "idle" /\ lim'[r].pc # "idle" /\ lim'[r].path # "health"
    ELSE lim[r].pc = "auth_limiter" /\ lim'[r].pc # "auth_limiter"

\* the limiter of the policy has let the request go on
PassedBy(rq, policy) ==
    IF policy = "general"
    THEN rq.pc = "auth_limiter" \/ (rq.pc = "done" /\ rq.status = 200)
    ELSE rq.pc = "done" /\ rq.status = 200

\* the limiter of the policy has answered the request 429
RejectedBy(rq, policy) ==
    /\ rq.pc = "done" /\ rq.status = 429 /\ rq.by = policy
    /\ rq.error # ""

\* the limit the claims state for a policy
StatedLimit(policy) == IF policy = "auth" THEN 10 ELSE 100

\* the place of a request among those of client c the limiter of the
\* policy is asked about inside one window of 15 minutes
PlaceInWindow(policy, c) ==
    IF asked[policy][c] = 0 \/ now >= since[policy][c] + 15 * 60
    THEN 1 ELSE asked[policy][c] + 1

\* C14: for each policy with limit N (general 100, auth 10), of the
\* requests of one client that reach the policy's limiter inside a window
\* of 15 minutes the first N are let pass by it and every later one, the
\* (N+1)-th first, is answered 429 with the limiter's message; the first
\* request after the window has elapsed counts as the first of a new
\* window and passes.
C14_LimitPerWindow ==
    [][\A r \in LimIds, policy \in Policies :
          Decides(r, policy)
              => IF PlaceInWindow(policy, lim'[r].client) <= StatedLimit(policy)
                 THEN PassedBy(lim'[r], policy)
                 ELSE RejectedBy(lim'[r], policy)]_vars

\* the 11th request of a client to an /auth path inside a window is
\* answered 429 by the auth limiter, the ten before it have passed
C14_Witness ==
    \E r \in LimIds :
        /\ lim[r].path = "auth"
        /\ RejectedBy(lim[r], "auth")
        /\ asked["auth"][lim[r].client] = 11
        /\ passed["auth"][lim[r].client] = 10

Counts(policy, c) ==
    \/ hits'[policy][c] # hits[policy][c]
    \/ resetAt'[policy][c] # resetAt[policy][c]

\* request r arrives in this step
ArrivesNow(r) == lim[r].pc = "idle" /\ lim'[r].pc # "idle"

\* authLimiter is run on request r in this step
AtAuthLimiter(r) == lim[r].pc = "auth_limiter" /\ lim'[r].pc # "auth_limiter"

\* C16 as stated: every request is counted by at most one policy, a
\* request to an /auth path by the auth policy only and a request to any
\* other path by the general policy only.
C16_Original ==
    [][\A r \in LimIds, c \in Clients :
          (ArrivesNow(r) \/ AtAuthLimiter(r))
              => /\ lim'[r].path = "auth" => ~Counts("general", c)
                 /\ lim'[r].path # "auth" => ~Counts("auth", c)]_vars

\* C16 amended: a request to /health is counted by no policy; a request to
\* an /auth path is counted by the general policy and, when the general
\* policy lets it pass, by the auth policy as well; a request to any other
\* path is counted by the general policy only.  A request is counted under
\* the key of its own client, once by a policy.
C16_PolicyCoverage ==
    [][\A r \in LimIds :
          /\ ArrivesNow(r)
                 => LET c == lim'[r].client
                        path == lim'[r].path
                    IN /\ hits'["auth"] = hits["auth"]
                       /\ \A d \in Clients \ {c} : ~Counts("general", d)
                       /\ Counts("general", c) <=> path # "health"
                       /\ lim'[r].pc = "auth_limiter"
                              <=> (path = "auth" /\ ~RejectedBy(lim'[r], "general"))
          /\ AtAuthLimiter(r)
                 => LET c == lim'[r].client
                    IN /\ lim'[r].path = "auth"
                       /\ hits'["general"] = hits["general"]
                       /\ \A d \in Clients \ {c} : ~Counts("auth", d)
                       /\ Counts("auth", c)
                       /\ lim'[r].pc = "done"]_vars

\* the one request a client has sent, to an /auth path, has been counted by
\* both policies
C16_Witness ==
    \E r \in LimIds :
        /\ lim[r].path = "auth" /\ lim[r].client = "c2"
        /\ lim[r].pc = "done" /\ lim[r].status = 200
        /\ asked["general"]["c2"] = 1 /\ hits["general"]["c2"] = 1
        /\ asked["auth"]["c2"] = 1 /\ hits["auth"]["c2"] = 1

\* ================================================== the proxied routes
\* the request waits for a downstream service
AtDownstream(rq) == rq.pc \in {"px_auth", "px_plain", "cn_fetch"}

\* C17 as stated: a request that the gateway serves by calling a
\* downstream service is answered in the end, also when the service never
\* answers, and when the call has not completed (no answer in time, or the
\* connection failed) the answer is UpstreamUnavailable (502).
C17_Claim ==
    \A r \in ReqIds :
        AtDownstream(req[r])
            ~> (req[r].pc = "done" /\ (req[r].threw # "" => req[r].status = 502))

\* C18 as stated: a request that has passed the auth gate and was sent to
\* a downstream service carries the user id of the verified token in the
\* forwarded user-id header, whatever the client has put in that header.
C18_Claim ==
    \A r \in ReqIds :
        (Did(req[r], "next") /\ req[r].sent)
            => req[r].fwd = TokenUser(req[r].token)

\* ====================================================== error handling
\* C19 as stated: whatever call to the cache or to a downstream service
\* fails while a request is handled, the request is not left without a
\* response, and the response is an error status with an error message.
C19_Claim ==
    \A r \in ReqIds :
        /\ req[r].pc # "hung"
        /\ (req[r].pc = "done" /\ req[r].threw # "")
               => (req[r].status >= 400 /\ req[r].error # "")

\* ====================================================== the health route
\* C20 as stated: the health response says healthy exactly when the cache
\* ping succeeded and every service's probe reported healthy, and degraded
\* otherwise; its HTTP status is 200 exactly when it says healthy, and 503
\* otherwise.
C20_Claim ==
    health.pc = "done"
        => /\ health.status \in {"healthy", "degraded"}
           /\ health.status = "healthy"
                  <=> /\ health.cache = "connected"
                      /\ \A n \in Services : health.services[n] = "healthy"
           /\ health.code \in {200, 503}
           /\ health.code = 200 <=> health.status = "healthy"

\* ================================================ requests without token
\* request r arrives in this step
Arrives(r) == req[r].pc = "idle" /\ req'[r].pc # "idle"

\* C21: a request to a route behind the auth gate that carries no token (no
\* Authorization header, or one without a token part) is answered 401
\* "Authentication required" by the gate in the step it arrives in: no
\* identity is attached, the route handler is not entered, nothing is sent
\* to a downstream service, and the carts, the revocation records and the
\* orders are as before.
C21_NoTokenIs401 ==
    [][\A r \in ReqIds :
          (Arrives(r) /\ req'[r].token = NoToken)
              => /\ req'[r].pc = "done"
                 /\ req'[r].status = 401
                 /\ req'[r].error = "Authentication required"
                 /\ req'[r].steps = <<"respond">>
                 /\ req'[r].user = NoUser
                 /\ ~req'[r].sent
                 /\ UNCHANGED <<carts, blacklist, orders>>]_vars

\* a request for the cart without a token is answered 401 while a cart is
\* stored
C21_Witness ==
    \E r \in ReqIds :
        /\ req[r].route = "cart_get" /\ req[r].token = NoToken
        /\ req[r].pc = "done" /\ req[r].status = 401
        /\ \E u \in Users : Stored(u) # <<>>

\* ======================================================== optional auth
\* the step in which optionalAuth calls next() for request r
OptionalDecides(r) ==
    /\ req'[r].route = "products"
    /\ req[r].pc \in {"idle", "ogate"}
    /\ req'[r].pc \notin {"idle", "ogate"}

\* the calls of next() in the steps of a request
NextCalls(rq) == Cardinality({i \in 1..Len(rq.steps) : rq.steps[i] = "next"})

RECURSIVE LineSum(_, _)
\* the sum of price * quantity over the first n line items
LineSum(items, n) ==
    IF n = 0 THEN 0
    ELSE LineSum(items, n - 1) + items[n].price * items[n].quantity

\* the order request of checkout request rq is out, or has been answered
Submitted(rq) == rq.route = "checkout" /\ Did(rq, "order_submit")

\* the order request carries the user, the items as read and their total
CarriesCart(rq) ==
    /\ rq.order.userId = rq.user
    /\ rq.order.items = rq.seen
    /\ rq.order.total = LineSum(rq.seen, Len(rq.seen))

CheckoutOrder == <<"cart_read", "order_submit", "cart_del", "notify">>

IsCheckoutStep(step) == \E i \in 1..Len(CheckoutOrder) : CheckoutOrder[i] = step

\* the calls request rq has issued as a checkout, in the order of issue
CheckoutTrace(rq) == SelectSeq(rq.steps, IsCheckoutStep)

\* the number of checkout calls issued when the handler waits at pc
IssuedAt(pc) ==
    CASE pc = "co_get" -> 1
      [] pc = "co_order" -> 2
      [] pc = "co_del" -> 3
      [] pc = "co_notify" -> 4

\* C24: within one checkout the calls are issued in the order cart load,
\* order submit, cart clear, notify, each at most once; while the handler
\* waits for one of them it has issued none of the later ones, so that a
\* step starts only when the one before has completed; and cart clear and
\* notify are issued only after the order service has answered success.
C24_StepsInSequence ==
    \A r \in ReqIds :
        req[r].route = "checkout"
            => LET trace == CheckoutTrace(req[r])
               IN /\ Len(trace) <= Len(CheckoutOrder)
                  /\ \A i \in 1..Len(trace) : trace[i] = CheckoutOrder[i]
                  /\ req[r].pc \in {"co_get", "co_order", "co_del", "co_notify"}
                         => Len(trace) = IssuedAt(req[r].pc)
                  /\ Len(trace) >= 3
                         => /\ req[r].order.id \in 1..Len(orders)
                            /\ orders[req[r].order.id] = req[r].order

\* a checkout of a stored cart waits for the notification call, having
\* issued the four calls, with its order created and the cart gone
C24_Witness ==
    \E r \in ReqIds :
        /\ req[r].route = "checkout" /\ req[r].pc = "co_notify"
        /\ CheckoutTrace(req[r]) = CheckoutOrder
        /\ req[r].seen # <<>>
        /\ orders = <<req[r].order>>
        /\ Stored(req[r].user) = <<>>

\* ======================================================= clearing a cart
\* C25: ClearCart does not fail on absence and is idempotent, and GetCart
\* is no error on absence.  A DELETE /cart whose del the cache has carried
\* out answers 200 and leaves no cart stored for the user, whether or not
\* one was stored, and every other cart as it was (so that a second call
\* changes nothing); a GET /cart whose read the cache has answered is 200
\* with the stored line items, the empty sequence when none are stored;
\* either one answers an error only when the cache call itself fails.
C25_ClearIsIdempotent ==
    [][\A r \in ReqIds :
          /\ Leaves(r, "cc_del")
                 => /\ req'[r].pc = "done"
                    /\ req'[r].status \in {200, 500}
                    /\ req'[r].status = 500 <=> req'[r].threw = "cart_del"
                    /\ req'[r].status = 200
                           => /\ carts' = [carts EXCEPT ![req[r].user] = NoCart]
                              /\ Stored(req[r].user)' = <<>>
                              /\ ~carts[req[r].user].present => carts' = carts
          /\ Leaves(r, "cg_get")
                 => /\ req'[r].pc = "done"
                    /\ req'[r].status \in {200, 500}
                    /\ req'[r].status = 500 <=> req'[r].threw = "cart_read"
                    /\ req'[r].status = 200
                           => /\ req'[r].body = Stored(req[r].user)
                              /\ ~carts[req[r].user].present => req'[r].body = <<>>
                    /\ carts' = carts]_vars

\* the first request of a run is a DELETE /cart, answered 200 with no cart
\* stored before or after it
C25_Witness ==
    /\ req[1].route = "cart_clear" /\ req[1].pc = "done" /\ req[1].status = 200
    /\ \A r \in ReqIds \ {1} : req[r].pc = "idle"
    /\ \A u \in Users : ~carts[u].present

\* ============================================================= shutdown
\* C26 as stated: on a shutdown signal every request in flight finishes
\* and gets its response before the process exits; the exit cuts off no
\* request.
C26_Claim ==
    proc = "exited" => \A r \in ReqIds : req[r].pc # "cut"

\* ================================================ checkouts under races
\* C27 as stated: the contents of a stored cart are submitted at most
\* once.  No two checkouts of one user have each had an order created
\* from the same cart contents, neither having cleared the cart yet: of
\* two checkouts running on one cart only one creates an order.
C27_Claim ==
    \A r1 \in ReqIds, r2 \in ReqIds :
        (/\ r1 # r2
         /\ req[r1].route = "checkout" /\ req[r2].route = "checkout"
         /\ req[r1].user = req[r2].user
         /\ req[r1].seen # <<>> /\ req[r1].seen = req[r2].seen)
            => ~(/\ req[r1].pc = "co_del" /\ OrderCreated(req[r1])
                 /\ req[r2].pc = "co_del" /\ OrderCreated(req[r2]))

\* request rq names product p in its body
Names(rq, p) ==
    \/ rq.route = "cart_add" /\ rq.arg.productId = p
    \/ rq.route = "cart_sync" /\ Lines(rq.arg.items, p) # {}

\* request rq, an AddItem or SyncCart, has just written a cart computed
\* from a non-empty cart it had read, over a key that a checkout had
\* deleted since, after the cart it had read was submitted as an order
WroteAfterCheckout(rq) ==
    /\ rq.route \in {"cart_add", "cart_sync"}
    /\ rq.pc = "done" /\ rq.status = 200
    /\ rq.seen # <<>> /\ rq.over = <<>>
    /\ \E i \in 1..Len(orders) :
           orders[i].userId = rq.user /\ orders[i].items = rq.seen

\* C28 as stated: an AddItem or SyncCart that was in flight while a
\* checkout ordered and cleared the user's cart does not write the ordered
\* items back: after its write the stored cart holds no ordered product
\* that its own body does not name.
C28_Claim ==
    \A r \in ReqIds :
        WroteAfterCheckout(req[r])
            => \A p \in Products :
                   (Qty(req[r].seen, p) > 0 /\ ~Names(req[r], p))
                       => Qty(Stored(req[r].user), p) = 0

\* ============================================ the WebSocket registrations
\* the users in whose set connection c is
RegisteredFor(c) == {u \in DOMAIN userConnections : c \in userConnections[u]}

\* C29 as stated: whatever auth messages a connection sends, it is in the
\* set of at most one user id at any time; once it has closed it is in no
\* set, and no user id maps to an empty set; and a notification for a
\* user is sent only to connections whose latest auth named that user.
C29_Claim ==
    /\ \A c \in Conns : Cardinality(RegisteredFor(c)) <= 1
    /\ \A c \in Conns : ws[c].state = "closed" => RegisteredFor(c) = {}
    /\ \A u \in DOMAIN userConnections : userConnections[u] # {}
    /\ \A sent \in lastSend.to : sent[2] = lastSend.user

\* ============================================ the RabbitMQ connections
\* the attempts whose connection is live
Live == {a \in Attempts : att[a].link = "live"}

\* the attempts that are in progress
InProgress == {a \in Attempts : att[a].pc \in {"connect", "channel", "queue"}}

\* C30 as stated (its safety part): at most one RabbitMQ connection is
\* live and at most one consumer is on order_notifications at any time,
\* and while an attempt to connect is under way no connection is live and
\* no other attempt is in progress.
C30_Claim ==
    /\ Cardinality(Live) <= 1
    /\ Cardinality({a \in Live : att[a].consumer}) <= 1
    /\ \A a \in Attempts :
           att[a].pc = "connect" => Live = {} /\ InProgress = {a}

====
